---- MODULE Spec2Model ----
(***************************************************************************)
(* Model of the news RAG backend.                                          *)
(*                                                                         *)
(*   - generateWithRetries (src/src/server.js): the retry / fallback loop  *)
(*     around the remote generation call.                                  *)
(*   - chunkText, embedBatch, upsert and the document loop of main         *)
(*     (the ingestion script, src/unnamed/part_000).                       *)
(*                                                                         *)
(*   - the POST /api/chat handler with pushHistory, retrieve and           *)
(*     buildRagPrompt (src/src/server.js).                                 *)
(*                                                                         *)
(* The two programs are separate processes.  Init starts exactly one of    *)
(* three entry points (a call of generateWithRetries, a call of chunkText, *)
(* an ingestion run); the parts that are not started stay "idle".  The     *)
(* chat requests run under their own specification, SpecChat.              *)
(***************************************************************************)
EXTENDS Integers, Sequences, FiniteSets, TLC

VARIABLES
    \* ---- generateWithRetries
    gpc,          \* position: "idle", "call", "wait", "returned", "thrown"
    maxAttempts,  \* the maxAttempts parameter
    modelIdx,     \* index into modelsToTry of the model of the outer loop
    attempt,      \* the inner loop's counter (0-based)
    lastErr,      \* the local lastErr
    genResult,    \* the value returned
    trace,        \* history: every remote call and every wait, in order
    \* ---- chunkText called on its own
    cpc,          \* "idle", "ready", "done"
    cin,          \* the arguments of the call
    cout,         \* the chunks returned
    \* ---- ingestion run (main)
    ipc,          \* "idle", "ensure", "create", "doc", "embed", "upsert", "done", "crashed"
    collExists,   \* whether the store holds the collection
    ensureCalls,  \* history: calls of ensureCollection in this run
    feed,         \* the documents the feeds deliver (the same for every run)
    docs,         \* the documents of the run
    run,          \* number of the run (the script is run again on the same feed)
    d,            \* index of the document of the for loop
    chunks,       \* chunks of the current document
    bi,           \* the batch offset i of upsert
    vectors,      \* what embedBatch returned for the current batch
    store,        \* the collection: point id -> point
    allOk,        \* history: every embed answer was well formed, every call succeeded
    snap,         \* history: the point ids in the collection when the previous run ended
    started,      \* history: the documents of this run the loop body was entered for
    lastStep,     \* history: what the last step of the run did
    faults,       \* history: failures and malformed answers so far
    \* ---- POST /api/chat: the requests of one session
    rpc,          \* per request: "idle", "start", "uGet", "uSet", "embed", "search",
                  \*   "generate", "aGet", "aSet", "done"
    message,      \* per request: req.body.message
    indexed,      \* the hits of the collection for the query, best first
    redis,        \* the value under the session's key: the stored history
    history,      \* per request: the local history of the pushHistory call under way
    retrieved,    \* per request: the local docs of the handler
    prompt,       \* per request: the prompt passed to generateWithRetries
    reply,        \* per request: the local reply (or info)
    responses,    \* per request: the responses sent, in order
    genCalls,     \* history, per request: calls of generateWithRetries
    pushes,       \* history: pushHistory calls that completed
    failedAt      \* history, per request: the step that threw ("none" if none did)

genVars == <<gpc, maxAttempts, modelIdx, attempt, lastErr, genResult, trace>>
chunkVars == <<cpc, cin, cout>>
ingestVars ==
    <<ipc, collExists, ensureCalls, feed, docs, run, d, chunks, bi, vectors, store, allOk,
      snap, started, lastStep, faults>>
chatVars ==
    <<rpc, message, indexed, redis, history, retrieved, prompt, reply, responses, genCalls,
      pushes, failedAt>>
vars == <<genVars, chunkVars, ingestVars, chatVars>>

Min(a, b) == IF a <= b THEN a ELSE b
Max(a, b) == IF a >= b THEN a ELSE b

(***************************************************************************)
(* generateWithRetries                                                     *)
(***************************************************************************)

\* Largest maxAttempts tried (the caller passes none, so the default 4 is in range;
\* 5 reaches an attempt index beyond the delay schedule).
MaxAttemptsBound == 5

\* An absent (undefined) status; falsy for the || of line 75.
NoStatus == 0

delays == <<400, 800, 1600, 3200>>

\* modelsToTry = [primaryModel, GEMINI_FALLBACK_MODEL]
modelsToTry == <<"primary", "fallback">>

\* Errors a remote call can throw: err.status, err.response.status and a message.
\* (An error thrown by result.response.text() is caught by the same catch and
\* carries no status.)
Errors ==
    { [status |-> 429, rstatus |-> NoStatus, msg |-> "rate limited"],
      [status |-> NoStatus, rstatus |-> 503, msg |-> "unavailable"],
      [status |-> 400, rstatus |-> 503, msg |-> "bad request"],
      [status |-> NoStatus, rstatus |-> NoStatus, msg |-> "no status"] }

\* let lastErr;  (undefined)
NoErr == [status |-> NoStatus, rstatus |-> NoStatus, msg |-> "undefined"]

\* Texts a successful call can answer with.
Texts == {"answer1", "answer2"}

\* const status = err?.status || err?.response?.status;
StatusOf(err) == IF err.status # NoStatus THEN err.status ELSE err.rstatus

retriableAlways(status) == TRUE

\* const retriable = status === 429 || ... || status === 504;
retriable(status) ==
    status = 429 \/ status = 500 \/ status = 502 \/ status = 503 \/ status = 504

waitFirstOnly(a) == delays[1]

\* const wait = delays[Math.min(attempt, delays.length - 1)];  (delays is 1-based here)
wait(a) == delays[Min(a, Len(delays) - 1) + 1]

loopTestInclusive(a) == a <= maxAttempts

\* attempt < maxAttempts
loopTest(a) == a < maxAttempts

keepFirstErr(err) == IF lastErr = NoErr THEN err ELSE lastErr

\* lastErr = err;
catchErr(err) == err

CallEvent(m, a, ok, err, text) ==
    [kind |-> "call", model |-> m, attempt |-> a, ok |-> ok, err |-> err,
     text |-> text, ms |-> 0]

WaitEvent(m, a, ms) ==
    [kind |-> "wait", model |-> m, attempt |-> a, ok |-> FALSE, err |-> NoErr,
     text |-> "", ms |-> ms]

\* The inner loop has ended for modelsToTry[modelIdx]: the outer loop takes the next
\* model, or, after the last one, line 84 throws lastErr.
NextModel ==
    IF modelIdx < Len(modelsToTry)
    THEN /\ gpc' = "call"
         /\ modelIdx' = modelIdx + 1
         /\ attempt' = 0
    ELSE /\ gpc' = "thrown"
         /\ UNCHANGED <<modelIdx, attempt>>

succeedThenNextModel(t) ==
    /\ genResult' = t
    /\ NextModel

\* return result.response.text();
returnText(t) ==
    /\ genResult' = t
    /\ gpc' = "returned"
    /\ UNCHANGED <<modelIdx, attempt>>

\* Lines 67-72: the call resolves and its text is returned.
GenSucceed ==
    /\ gpc = "call"
    /\ \E t \in Texts :
          /\ trace' = Append(trace, CallEvent(modelsToTry[modelIdx], attempt, TRUE, NoErr, t))
          /\ returnText(t)
    /\ UNCHANGED <<maxAttempts, lastErr>>
    /\ UNCHANGED <<chunkVars, ingestVars, chatVars>>

\* Lines 73-77: the call throws; a permanent error breaks out of the inner loop.
GenFail ==
    /\ gpc = "call"
    /\ \E err \in Errors :
          /\ trace' = Append(trace, CallEvent(modelsToTry[modelIdx], attempt, FALSE, err, ""))
          /\ lastErr' = catchErr(err)
          /\ IF retriable(StatusOf(err))
             THEN /\ gpc' = "wait"
                  /\ UNCHANGED <<modelIdx, attempt>>
             ELSE NextModel
    /\ UNCHANGED <<maxAttempts, genResult>>
    /\ UNCHANGED <<chunkVars, ingestVars, chatVars>>

\* Lines 78-79 (the wait), then attempt++ and the loop test of line 65.
GenWait ==
    /\ gpc = "wait"
    /\ trace' = Append(trace, WaitEvent(modelsToTry[modelIdx], attempt, wait(attempt)))
    /\ IF loopTest(attempt + 1)
       THEN /\ gpc' = "call"
            /\ attempt' = attempt + 1
            /\ UNCHANGED modelIdx
       ELSE NextModel
    /\ UNCHANGED <<maxAttempts, lastErr, genResult>>
    /\ UNCHANGED <<chunkVars, ingestVars, chatVars>>

GenIdle ==
    /\ gpc = "idle" /\ maxAttempts = 0 /\ modelIdx = 0 /\ attempt = 0
    /\ lastErr = NoErr /\ genResult = "" /\ trace = <<>>

\* A call generateWithRetries(genAI, primaryModel, prompt, maxAttempts).
InitGen ==
    /\ gpc = "call"
    /\ maxAttempts \in 1..MaxAttemptsBound
    /\ modelIdx = 1
    /\ attempt = 0
    /\ lastErr = NoErr
    /\ genResult = ""
    /\ trace = <<>>

(***************************************************************************)
(* chunkText                                                               *)
(*                                                                         *)
(* A text is modelled by its length maxLen, and the chunk text.slice(i,    *)
(* end) by the pair of its bounds: for a given text the bounds determine   *)
(* the chunk.                                                              *)
(***************************************************************************)

\* Bounds of the arguments tried when chunkText is called on its own.
MaxLen == 9
MaxChunkSize == 4
MaxOverlap == 4
MaxChunksArg == 5

\* text.slice(i, end), for 0 <= i and end <= text.length: empty unless i < end.
Slice(i, end) == [from |-> i, to |-> Max(i, end)]

cursorSkipsOverlap(end, overlap) == end + overlap

\* i = end - overlap; if (i < 0) i = 0;
nextCursor(end, overlap) == IF end - overlap < 0 THEN 0 ELSE end - overlap

RECURSIVE chunkLoop(_, _, _, _, _, _)
\* The while loop of lines 155-160, from cursor i with the chunks acc pushed so far.
chunkLoop(i, acc, maxLen, chunkSize, overlap, maxChunks) ==
    IF i < maxLen /\ Len(acc) < maxChunks
    THEN LET end == Min(i + chunkSize, maxLen)
         IN  chunkLoop(nextCursor(end, overlap), Append(acc, Slice(i, end)),
                       maxLen, chunkSize, overlap, maxChunks)
    ELSE acc

chunkTextOneMore(maxLen, chunkSize, overlap, maxChunks) ==
    chunkLoop(0, <<>>, maxLen, chunkSize, overlap, maxChunks + 1)

chunkText(maxLen, chunkSize, overlap, maxChunks) ==
    chunkLoop(0, <<>>, maxLen, chunkSize, overlap, maxChunks)

NoArgs == [maxLen |-> 0, chunkSize |-> 0, overlap |-> 0, maxChunks |-> 0]

ChunkIdle == cpc = "idle" /\ cin = NoArgs /\ cout = <<>>

\* A call chunkText(text, chunkSize, overlap, maxChunks).
InitChunk ==
    /\ cpc = "ready"
    /\ cin \in [maxLen : 0..MaxLen, chunkSize : 1..MaxChunkSize,
                overlap : 0..MaxOverlap, maxChunks : 0..MaxChunksArg]
    /\ cout = <<>>

ChunkCall ==
    /\ cpc = "ready"
    /\ cout' = chunkText(cin.maxLen, cin.chunkSize, cin.overlap, cin.maxChunks)
    /\ cpc' = "done"
    /\ UNCHANGED cin
    /\ UNCHANGED <<genVars, ingestVars, chatVars>>

(***************************************************************************)
(* Ingestion: embedBatch, upsert and the document loop of main             *)
(***************************************************************************)

\* Runs of the script, and the failures and malformed answers of embed and upsert
\* calls within one execution.
MaxRuns == 2
MaxFaults == 2

\* chunkText(data.text, 800, 80, 80), truncateText(data.text, 60000), BATCH = 32.
ChunkSize == 800
Overlap == 80
MaxChunks == 80
MaxChars == 60000
BATCH == 32

\* Strings are sequences of characters here, so that they can be concatenated.
UrlA == <<"a">>
UrlB == <<"b">>

\* The documents a feed can deliver: url, title and the length of the text.
DocA == [url |-> UrlA, title |-> "A", len |-> 200]
DocA2 == [url |-> UrlA, title |-> "A2", len |-> 2000]
DocB == [url |-> UrlB, title |-> "B", len |-> 70000]

\* (The acquisition step lets through texts of 200 characters or more.)
\* The feeds tried: two documents, a document delivered twice, two documents under
\* one url, three documents.
Feeds == { <<DocA, DocB>>, <<DocB, DocB>>, <<DocA, DocA2>>, <<DocB, DocA2, DocA>> }

\* str.length > maxChars ? str.slice(0, maxChars) : str   (on lengths)
truncateText(len, maxChars) == IF len > maxChars THEN maxChars ELSE len

Digit(n) == <<"0", "1", "2", "3", "4", "5", "6", "7", "8", "9">>[n + 1]

RECURSIVE Decimal(_)
\* String(n) for an integer n >= 0, as '' + n gives it.
Decimal(n) == IF n < 10 THEN <<Digit(n)>> ELSE Decimal(n \div 10) \o <<Digit(n % 10)>>

\* crypto.createHash('md5').update(s).digest('hex'): an injective tag of its input.
md5(s) == <<"md5", s>>

pointIdInBatch(url, g) == md5(url \o <<"#">> \o Decimal(g % BATCH))

pointIdPerRun(url, g) == md5(url \o <<"#">> \o Decimal(g) \o <<"@">> \o Decimal(run))

\* id: md5 of meta.url + '#' + (i + j)
pointId(url, g) == md5(url \o <<"#">> \o Decimal(g))

\* The vector the embedding service computes for one input text.
Embedding(text) == <<"emb", text>>

\* chunks.slice(i, i + BATCH): the elements i .. i+BATCH-1 (0-based) that exist.
BatchSlice(cs, i) == SubSeq(cs, i + 1, Min(i + BATCH, Len(cs)))

\* The answers of the embedding service to a request for texts: resp.data.data is
\* one entry per input, or (a malformed answer) one entry short.
EmbedAnswers(texts) ==
    { [k \in 1..n |-> [embedding |-> Embedding(texts[k])]] : n \in {Len(texts), Len(texts) - 1} }

\* return resp.data.data.map(d => d.embedding);
embedBatch(data) == [k \in 1..Len(data) |-> data[k].embedding]

\* vectors.map((vec, j) => ({ id, vector: vec, payload: { url, title, text: slice[j] } }))
Points(vecs, slice, i, meta) ==
    [j \in 1..Len(vecs) |->
        [id |-> pointId(meta.url, i + (j - 1)),
         vector |-> vecs[j],
         payload |-> [url |-> meta.url, title |-> meta.title, text |-> slice[j]]]]

\* qdrant.upsert(collection, { points }): every point is written under its id, over
\* what the collection held under that id; of two points with one id the later stays.
Upserted(st, points) ==
    LET ids == {points[j].id : j \in 1..Len(points)}
        LastOf(id) == CHOOSE j \in 1..Len(points) :
                          /\ points[j].id = id
                          /\ \A k \in 1..Len(points) : points[k].id = id => k <= j
    IN  [id \in DOMAIN st \cup ids |->
            IF id \in ids
            THEN [vector |-> points[LastOf(id)].vector,
                  payload |-> points[LastOf(id)].payload]
            ELSE st[id]]

NoStep == [op |-> "none", doc |-> 0, batch |-> 0, ok |-> TRUE]
Step(op, ok) == [op |-> op, doc |-> d, batch |-> bi, ok |-> ok]

IngestIdle ==
    /\ ipc = "idle" /\ feed = <<>> /\ docs = <<>> /\ run = 0 /\ d = 0 /\ chunks = <<>>
    /\ bi = 0 /\ vectors = <<>> /\ store = <<>> /\ allOk = TRUE /\ snap = {}
    /\ started = {} /\ lastStep = NoStep /\ faults = 0
    /\ collExists = FALSE /\ ensureCalls = 0

\* main, at the call of ensureCollection (line 205); the store may hold the collection
\* already.  feed is what the acquisition step of lines 207-222 will deliver.
InitIngest ==
    /\ ipc = "ensure"
    /\ collExists \in BOOLEAN
    /\ ensureCalls = 0
    /\ feed \in Feeds
    /\ docs = feed
    /\ run = 1
    /\ d = 1
    /\ chunks = <<>>
    /\ bi = 0
    /\ vectors = <<>>
    /\ store = <<>>
    /\ allOk = TRUE
    /\ snap = {}
    /\ started = {}
    /\ lastStep = NoStep
    /\ faults = 0

\* Line 33: getCollection answers; "Collection exists." and main goes on.
IngestCheckFound ==
    /\ ipc = "ensure"
    /\ collExists
    /\ ipc' = "doc"
    /\ ensureCalls' = ensureCalls + 1
    /\ lastStep' = [op |-> "check", doc |-> 0, batch |-> 0, ok |-> TRUE]
    /\ UNCHANGED <<collExists, feed, docs, run, d, chunks, bi, vectors, store, allOk, snap,
                   started, faults>>
    /\ UNCHANGED <<genVars, chunkVars, chatVars>>

\* Lines 33-34: the store answers "not found"; .catch gives null and 'no' is thrown.
IngestCheckMissing ==
    /\ ipc = "ensure"
    /\ ~collExists
    /\ ipc' = "create"
    /\ ensureCalls' = ensureCalls + 1
    /\ lastStep' = [op |-> "check", doc |-> 0, batch |-> 0, ok |-> TRUE]
    /\ UNCHANGED <<collExists, feed, docs, run, d, chunks, bi, vectors, store, allOk, snap,
                   started, faults>>
    /\ UNCHANGED <<genVars, chunkVars, chatVars>>

\* Lines 33-34: the check itself errors (timeout, 5xx), whatever the store holds;
\* .catch gives null as well.
IngestCheckError ==
    /\ ipc = "ensure"
    /\ ipc' = "create"
    /\ ensureCalls' = ensureCalls + 1
    /\ lastStep' = [op |-> "check", doc |-> 0, batch |-> 0, ok |-> FALSE]
    /\ UNCHANGED <<collExists, feed, docs, run, d, chunks, bi, vectors, store, allOk, snap,
                   started, faults>>
    /\ UNCHANGED <<genVars, chunkVars, chatVars>>

\* Lines 37-40: createCollection on a store that does not hold the collection.
IngestCreate ==
    /\ ipc = "create"
    /\ ~collExists
    /\ collExists' = TRUE
    /\ ipc' = "doc"
    /\ lastStep' = [op |-> "create", doc |-> 0, batch |-> 0, ok |-> TRUE]
    /\ UNCHANGED <<ensureCalls, feed, docs, run, d, chunks, bi, vectors, store, allOk, snap,
                   started, faults>>
    /\ UNCHANGED <<genVars, chunkVars, chatVars>>

\* Lines 38-40: the store rejects creating a collection it holds; the error leaves
\* ensureCollection and main, and line 242 ends the process.
IngestCreateRejected ==
    /\ ipc = "create"
    /\ collExists
    /\ ipc' = "crashed"
    /\ lastStep' = [op |-> "create", doc |-> 0, batch |-> 0, ok |-> FALSE]
    /\ UNCHANGED <<collExists, ensureCalls, feed, docs, run, d, chunks, bi, vectors, store,
                   allOk, snap, started, faults>>
    /\ UNCHANGED <<genVars, chunkVars, chatVars>>

crashRun ==
    /\ ipc' = "crashed"
    /\ UNCHANGED d

\* catch (e) { console.warn(...) } of line 234: on to the next document.
catchDocError ==
    /\ ipc' = "doc"
    /\ d' = d + 1

\* Lines 229-233 up to the first embed: truncate, chunk, enter upsert's loop.
IngestStartDoc ==
    /\ ipc = "doc"
    /\ d <= Len(docs)
    /\ LET len == truncateText(docs[d].len, MaxChars)
           cs == chunkText(len, ChunkSize, Overlap, MaxChunks)
       IN  /\ docs' = [docs EXCEPT ![d].len = len]
           /\ chunks' = cs
           /\ IF 0 < Len(cs)
              THEN ipc' = "embed" /\ d' = d
              ELSE ipc' = "doc" /\ d' = d + 1
    /\ bi' = 0
    /\ started' = started \cup {d}
    /\ lastStep' = [op |-> "start", doc |-> d, batch |-> 0, ok |-> TRUE]
    /\ UNCHANGED <<collExists, ensureCalls, feed, run, vectors, store, allOk, snap, faults>>
    /\ UNCHANGED <<genVars, chunkVars, chatVars>>

\* Line 184: the embedding service answers.
IngestEmbed ==
    /\ ipc = "embed"
    /\ \E data \in EmbedAnswers(BatchSlice(chunks, bi)) :
          /\ Len(data) = Len(BatchSlice(chunks, bi)) \/ faults < MaxFaults
          /\ vectors' = embedBatch(data)
          /\ allOk' = (allOk /\ Len(data) = Len(BatchSlice(chunks, bi)))
          /\ faults' = IF Len(data) = Len(BatchSlice(chunks, bi)) THEN faults ELSE faults + 1
    /\ ipc' = "upsert"
    /\ lastStep' = Step("embed", TRUE)
    /\ UNCHANGED <<collExists, ensureCalls, feed, docs, run, d, chunks, bi, store, snap,
                   started>>
    /\ UNCHANGED <<genVars, chunkVars, chatVars>>

\* Line 184: the request fails (axios throws); upsert and the try block end.
IngestEmbedFail ==
    /\ ipc = "embed"
    /\ faults < MaxFaults
    /\ faults' = faults + 1
    /\ catchDocError
    /\ allOk' = FALSE
    /\ lastStep' = Step("embed", FALSE)
    /\ UNCHANGED <<collExists, ensureCalls, feed, docs, run, chunks, bi, vectors, store, snap,
                   started>>
    /\ UNCHANGED <<genVars, chunkVars, chatVars>>

nextBatchSkipsOne(i) == i + 2 * BATCH

\* i += BATCH
nextBatch(i) == i + BATCH

\* Lines 187-198 and the loop step i += BATCH: the batch is stored.
IngestUpsert ==
    /\ ipc = "upsert"
    /\ store' = Upserted(store, Points(vectors, BatchSlice(chunks, bi), bi,
                                       [url |-> docs[d].url, title |-> docs[d].title]))
    /\ bi' = nextBatch(bi)
    /\ IF nextBatch(bi) < Len(chunks)
       THEN ipc' = "embed" /\ d' = d
       ELSE ipc' = "doc" /\ d' = d + 1
    /\ lastStep' = Step("upsert", TRUE)
    /\ UNCHANGED <<collExists, ensureCalls, feed, docs, run, chunks, vectors, allOk, snap,
                   started, faults>>
    /\ UNCHANGED <<genVars, chunkVars, chatVars>>

\* Line 198: the store rejects the request; nothing is stored.
IngestUpsertFail ==
    /\ ipc = "upsert"
    /\ faults < MaxFaults
    /\ faults' = faults + 1
    /\ catchDocError
    /\ allOk' = FALSE
    /\ lastStep' = Step("upsert", FALSE)
    /\ UNCHANGED <<collExists, ensureCalls, feed, docs, run, chunks, bi, vectors, store, snap,
                   started>>
    /\ UNCHANGED <<genVars, chunkVars, chatVars>>

\* Line 239: the loop is over.
IngestDone ==
    /\ ipc = "doc"
    /\ d > Len(docs)
    /\ ipc' = "done"
    /\ lastStep' = [op |-> "done", doc |-> 0, batch |-> 0, ok |-> TRUE]
    /\ UNCHANGED <<collExists, ensureCalls, feed, docs, run, d, chunks, bi, vectors, store,
                   allOk, snap, started, faults>>
    /\ UNCHANGED <<genVars, chunkVars, chatVars>>

\* The script is run again on the same feed and the same collection.
IngestRerun ==
    /\ ipc = "done"
    /\ run < MaxRuns
    /\ run' = run + 1
    /\ snap' = DOMAIN store
    /\ docs' = feed
    /\ ipc' = "ensure"
    /\ ensureCalls' = 0
    /\ d' = 1
    /\ chunks' = <<>>
    /\ bi' = 0
    /\ vectors' = <<>>
    /\ started' = {}
    /\ lastStep' = [op |-> "rerun", doc |-> 0, batch |-> 0, ok |-> TRUE]
    /\ UNCHANGED <<collExists, feed, store, allOk, faults>>
    /\ UNCHANGED <<genVars, chunkVars, chatVars>>

(***************************************************************************)
(* The specification                                                       *)
(***************************************************************************)

(***************************************************************************)
(* POST /api/chat (src/src/server.js, lines 158-193)                       *)
(*                                                                         *)
(* The requests of Requests carry the same session cookie.  A request is   *)
(* a sequence of steps, one per await of the handler; steps of different   *)
(* requests interleave.  Every awaited call may throw, which takes the     *)
(* request to the catch block.                                             *)
(***************************************************************************)

Requests == {1, 2}

\* retrieve(message, 5)
TopK == 5

\* Bound on the number of hits the collection holds for a query.
MaxIndexed == 6

\* Hits of qdrant.search: a score (in ten-thousandths) and a payload, which may be
\* missing.
NoPayload == [present |-> FALSE, text |-> "", url |-> "", title |-> ""]
HitA ==
    [score |-> 8100,
     payload |-> [present |-> TRUE, text |-> "text A", url |-> "http://a", title |-> "A"]]
HitB == [score |-> 7765, payload |-> NoPayload]
Hits == {HitA, HitB}

RECURSIVE SeqsUpTo(_, _)
SeqsUpTo(S, n) ==
    IF n = 0 THEN {<<>>}
    ELSE LET shorter == SeqsUpTo(S, n - 1)
         IN  shorter \cup {Append(q, x) : q \in {t \in shorter : Len(t) = n - 1}, x \in S}

\* req.body.message: absent, a string (a sequence of characters) or a number.
NoMessage == [kind |-> "undefined", val |-> <<>>]
Str(chars) == [kind |-> "string", val |-> chars]
Num(n) == [kind |-> "number", val |-> n]
Messages ==
    {NoMessage, Str(<<>>), Str(<<" ", "\t">>), Str(<<"h", "i">>), Str(<<" ", "q", " ">>),
     Num(0), Num(7)}

WhiteSpace == {" ", "\t", "\n"}

\* String.prototype.trim
RECURSIVE TrimLeft(_)
TrimLeft(chars) ==
    IF chars # <<>> /\ Head(chars) \in WhiteSpace THEN TrimLeft(Tail(chars)) ELSE chars

RECURSIVE TrimRight(_)
TrimRight(chars) ==
    IF chars # <<>> /\ chars[Len(chars)] \in WhiteSpace
    THEN TrimRight(SubSeq(chars, 1, Len(chars) - 1))
    ELSE chars

Trim(chars) == TrimRight(TrimLeft(chars))

\* !message
Falsy(m) ==
    \/ m.kind = "undefined"
    \/ m.kind = "string" /\ m.val = <<>>
    \/ m.kind = "number" /\ m.val = 0

\* message.trim is not a function: the call throws a TypeError.
TrimThrows(m) == ~Falsy(m) /\ m.kind # "string"

\* !message || !message.trim()
Rejected(m) == Falsy(m) \/ (m.kind = "string" /\ Trim(m.val) = <<>>)

info == "No indexed news found for retrieval. Please run npm run ingest."
friendly == "The news model is busy right now. Please try again in a few seconds."
Replies == {"answer [S1]", ""}
NoPrompt == [question |-> NoMessage, blocks |-> <<>>]

\* { role, content, ts }: the time stamp is left out.
Entry(role, content) == [role |-> role, content |-> content]

pushFront(h, e) == <<e>> \o h

\* history.push(entry)
push(h, e) == Append(h, e)

\* qdrant.search(..., { limit: topK }): the topK best hits, best first.
search(topK) == SubSeq(indexed, 1, Min(topK, Len(indexed)))

\* search.map(hit => ({ score, text: hit.payload?.text || '', url: ..., title: ... }))
DocOf(hit) ==
    [score |-> hit.score,
     text |-> IF hit.payload.present THEN hit.payload.text ELSE "",
     url |-> IF hit.payload.present THEN hit.payload.url ELSE "",
     title |-> IF hit.payload.present THEN hit.payload.title ELSE ""]

retrieve(topK) == [k \in 1..Len(search(topK)) |-> DocOf(search(topK)[k])]

\* score.toFixed(3), in thousandths, for a score in ten-thousandths.
toFixed3(score) == (score + 5) \div 10

\* buildRagPrompt: the question and one block per context, in the order of contexts.
buildRagPrompt(query, contexts) ==
    [question |-> query,
     blocks |-> [k \in 1..Len(contexts) |->
                    [label |-> <<"Source ">> \o Decimal(k),
                     score |-> toFixed3(contexts[k].score),
                     title |-> contexts[k].title,
                     text |-> contexts[k].text,
                     url |-> contexts[k].url]]]

sourcesFromZero(docs_) ==
    [k \in 1..Len(docs_) |->
        [id |-> <<"S">> \o Decimal(k - 1), title |-> docs_[k].title, url |-> docs_[k].url,
         score |-> docs_[k].score]]

\* docs.map((d, idx) => ({ id: `S${idx+1}`, title: d.title, url: d.url, score: d.score }))
sources(docs_) ==
    [k \in 1..Len(docs_) |->
        [id |-> <<"S">> \o Decimal(k), title |-> docs_[k].title, url |-> docs_[k].url,
         score |-> docs_[k].score]]

neverEmpty(docs_) == FALSE

\* !docs || docs.length === 0
noContext(docs_) == Len(docs_) = 0

hardError == [status |-> 500, reply |-> "error", sources |-> <<>>]

\* The catch block's response.
friendlyResponse == [status |-> 200, reply |-> friendly, sources |-> <<>>]

ChatIdle ==
    /\ rpc = [r \in Requests |-> "idle"]
    /\ message = [r \in Requests |-> NoMessage]
    /\ indexed = <<>>
    /\ redis = <<>>
    /\ history = [r \in Requests |-> <<>>]
    /\ retrieved = [r \in Requests |-> <<>>]
    /\ prompt = [r \in Requests |-> NoPrompt]
    /\ reply = [r \in Requests |-> ""]
    /\ responses = [r \in Requests |-> <<>>]
    /\ genCalls = [r \in Requests |-> 0]
    /\ pushes = 0
    /\ failedAt = [r \in Requests |-> "none"]

\* One request alone with any message and any collection, or two requests with
\* non-empty messages at the same time on a collection of at most one hit.
InitChat ==
    /\ \/ /\ \E m \in Messages :
                /\ message = [r \in Requests |-> IF r = 1 THEN m ELSE NoMessage]
          /\ rpc = [r \in Requests |-> IF r = 1 THEN "start" ELSE "idle"]
          /\ indexed \in SeqsUpTo(Hits, MaxIndexed)
       \/ /\ message = [r \in Requests |-> Str(<<"q", Digit(r)>>)]
          /\ rpc = [r \in Requests |-> "start"]
          /\ indexed \in {<<>>, <<HitA>>}
    /\ redis = <<>>
    /\ history = [r \in Requests |-> <<>>]
    /\ retrieved = [r \in Requests |-> <<>>]
    /\ prompt = [r \in Requests |-> NoPrompt]
    /\ reply = [r \in Requests |-> ""]
    /\ responses = [r \in Requests |-> <<>>]
    /\ genCalls = [r \in Requests |-> 0]
    /\ pushes = 0
    /\ failedAt = [r \in Requests |-> "none"]

Respond(r, response) == responses' = [responses EXCEPT ![r] = Append(@, response)]

\* Lines 187-192.
Catch(r, step) ==
    /\ Respond(r, friendlyResponse)
    /\ rpc' = [rpc EXCEPT ![r] = "done"]
    /\ failedAt' = [failedAt EXCEPT ![r] = step]

\* Lines 160-164: the message is missing or blank.
ChatReject(r) ==
    /\ rpc[r] = "start"
    /\ Rejected(message[r])
    /\ Respond(r, [status |-> 400, reply |-> "message is required", sources |-> <<>>])
    /\ rpc' = [rpc EXCEPT ![r] = "done"]
    /\ UNCHANGED <<message, indexed, redis, history, retrieved, prompt, reply, genCalls,
                   pushes, failedAt>>
    /\ UNCHANGED <<genVars, chunkVars, ingestVars>>

\* Line 161: message.trim() throws for a message that is not a string.
ChatTrimThrows(r) ==
    /\ rpc[r] = "start"
    /\ TrimThrows(message[r])
    /\ Catch(r, "start")
    /\ UNCHANGED <<message, indexed, redis, history, retrieved, prompt, reply, genCalls,
                   pushes>>
    /\ UNCHANGED <<genVars, chunkVars, ingestVars>>

\* Lines 161, 164: the message is accepted and pushHistory is called.
ChatAccept(r) ==
    /\ rpc[r] = "start"
    /\ ~Rejected(message[r])
    /\ ~TrimThrows(message[r])
    /\ rpc' = [rpc EXCEPT ![r] = "uGet"]
    /\ UNCHANGED <<message, indexed, redis, history, retrieved, prompt, reply, responses,
                   genCalls, pushes, failedAt>>
    /\ UNCHANGED <<genVars, chunkVars, ingestVars>>

\* Line 106: const history = await getHistory(sessionId).
ChatGet(r) ==
    /\ rpc[r] \in {"uGet", "aGet"}
    /\ history' = [history EXCEPT ![r] = redis]
    /\ rpc' = [rpc EXCEPT ![r] = IF rpc[r] = "uGet" THEN "uSet" ELSE "aSet"]
    /\ UNCHANGED <<message, indexed, redis, retrieved, prompt, reply, responses, genCalls,
                   pushes, failedAt>>
    /\ UNCHANGED <<genVars, chunkVars, ingestVars>>

\* Lines 107-108 for the user's message, then line 166 calls retrieve.
ChatSetUser(r) ==
    /\ rpc[r] = "uSet"
    /\ redis' = push(history[r], Entry("user", message[r].val))
    /\ pushes' = pushes + 1
    /\ rpc' = [rpc EXCEPT ![r] = "embed"]
    /\ UNCHANGED <<message, indexed, history, retrieved, prompt, reply, responses, genCalls,
                   failedAt>>
    /\ UNCHANGED <<genVars, chunkVars, ingestVars>>

\* Line 127: the query's embedding arrives.
ChatEmbed(r) ==
    /\ rpc[r] = "embed"
    /\ rpc' = [rpc EXCEPT ![r] = "search"]
    /\ UNCHANGED <<message, indexed, redis, history, retrieved, prompt, reply, responses,
                   genCalls, pushes, failedAt>>
    /\ UNCHANGED <<genVars, chunkVars, ingestVars>>

\* Lines 128-139 and 169-178: the search answers; without context info is pushed,
\* with context the prompt is built and generateWithRetries is called.
ChatSearch(r) ==
    /\ rpc[r] = "search"
    /\ retrieved' = [retrieved EXCEPT ![r] = retrieve(TopK)]
    /\ IF noContext(retrieve(TopK))
       THEN /\ reply' = [reply EXCEPT ![r] = info]
            /\ rpc' = [rpc EXCEPT ![r] = "aGet"]
            /\ UNCHANGED <<prompt, genCalls>>
       ELSE /\ prompt' = [prompt EXCEPT ![r] = buildRagPrompt(message[r], retrieve(TopK))]
            /\ genCalls' = [genCalls EXCEPT ![r] = @ + 1]
            /\ rpc' = [rpc EXCEPT ![r] = "generate"]
            /\ UNCHANGED reply
    /\ UNCHANGED <<message, indexed, redis, history, responses, pushes, failedAt>>
    /\ UNCHANGED <<genVars, chunkVars, ingestVars>>

\* Lines 178-180: generateWithRetries returns a text, and pushHistory is called.
ChatGenerate(r) ==
    /\ rpc[r] = "generate"
    /\ \E text \in Replies : reply' = [reply EXCEPT ![r] = text]
    /\ rpc' = [rpc EXCEPT ![r] = "aGet"]
    /\ UNCHANGED <<message, indexed, redis, history, retrieved, prompt, responses, genCalls,
                   pushes, failedAt>>
    /\ UNCHANGED <<genVars, chunkVars, ingestVars>>

\* Lines 107-108 for the assistant's reply, then the response of line 172 or 182.
ChatSetAssistant(r) ==
    /\ rpc[r] = "aSet"
    /\ redis' = push(history[r], Entry("assistant", reply[r]))
    /\ pushes' = pushes + 1
    /\ Respond(r, [status |-> 200, reply |-> reply[r],
                   sources |-> IF noContext(retrieved[r]) THEN <<>>
                               ELSE sources(retrieved[r])])
    /\ rpc' = [rpc EXCEPT ![r] = "done"]
    /\ UNCHANGED <<message, indexed, history, retrieved, prompt, reply, genCalls, failedAt>>
    /\ UNCHANGED <<genVars, chunkVars, ingestVars>>

\* An awaited call throws (redis.get, redis.set, the embedding request, the search,
\* generateWithRetries after its last attempt): the catch block answers.
ChatFail(r) ==
    /\ rpc[r] \in {"uGet", "uSet", "embed", "search", "generate", "aGet", "aSet"}
    /\ Catch(r, rpc[r])
    /\ UNCHANGED <<message, indexed, redis, history, retrieved, prompt, reply, genCalls,
                   pushes>>
    /\ UNCHANGED <<genVars, chunkVars, ingestVars>>

Init ==
    \/ InitGen /\ ChunkIdle /\ IngestIdle /\ ChatIdle
    \/ GenIdle /\ InitChunk /\ IngestIdle /\ ChatIdle
    \/ GenIdle /\ ChunkIdle /\ InitIngest /\ ChatIdle

Next ==
    \/ GenSucceed
    \/ GenFail
    \/ GenWait
    \/ ChunkCall
    \/ IngestCheckFound
    \/ IngestCheckMissing
    \/ IngestCheckError
    \/ IngestCreate
    \/ IngestCreateRejected
    \/ IngestStartDoc
    \/ IngestEmbed
    \/ IngestEmbedFail
    \/ IngestUpsert
    \/ IngestUpsertFail
    \/ IngestDone
    \/ IngestRerun

Spec == Init /\ [][Next]_vars

InitChatRun == GenIdle /\ ChunkIdle /\ IngestIdle /\ InitChat

NextChat ==
    \E r \in Requests :
        \/ ChatReject(r)
        \/ ChatTrimThrows(r)
        \/ ChatAccept(r)
        \/ ChatGet(r)
        \/ ChatSetUser(r)
        \/ ChatEmbed(r)
        \/ ChatSearch(r)
        \/ ChatGenerate(r)
        \/ ChatSetAssistant(r)
        \/ ChatFail(r)

SpecChat == InitChatRun /\ [][NextChat]_vars

(***************************************************************************)
(* Properties of generateWithRetries, stated on the history of calls and   *)
(* waits                                                                   *)
(***************************************************************************)

\* The retriable statuses as the specification lists them.
RetriableStatuses == {429, 500, 502, 503, 504}

IsCall(e) == e.kind = "call"
IsWait(e) == e.kind = "wait"
FailedCall(e) == IsCall(e) /\ ~e.ok
RetriableFailure(e) == FailedCall(e) /\ StatusOf(e.err) \in RetriableStatuses
PermanentFailure(e) == FailedCall(e) /\ StatusOf(e.err) \notin RetriableStatuses

Calls == SelectSeq(trace, IsCall)
OnPrimary(e) == IsCall(e) /\ e.model = modelsToTry[1]
OnFallback(e) == IsCall(e) /\ e.model = modelsToTry[2]
PrimaryCalls == SelectSeq(trace, OnPrimary)
FallbackCalls == SelectSeq(trace, OnFallback)

EveryCallFailedRetriably == \A i \in 1..Len(trace) : IsCall(trace[i]) => RetriableFailure(trace[i])

\* C1: when every call fails with a retriable status, the calls are maxAttempts calls
\* on the primary model (attempts 0, 1, ...) followed by maxAttempts calls on the
\* fallback model, never more, no value is returned, and the run ends by throwing.
C1_RetryBound ==
    (gpc # "idle" /\ EveryCallFailedRetriably) =>
        /\ gpc # "returned"
        /\ Len(PrimaryCalls) <= maxAttempts
        /\ Len(FallbackCalls) <= maxAttempts
        /\ Calls = PrimaryCalls \o FallbackCalls
        /\ \A k \in 1..Len(PrimaryCalls) : PrimaryCalls[k].attempt = k - 1
        /\ \A k \in 1..Len(FallbackCalls) : FallbackCalls[k].attempt = k - 1
        /\ Len(FallbackCalls) > 0 => Len(PrimaryCalls) = maxAttempts
        /\ gpc = "call" => Len(Calls) < 2 * maxAttempts
        /\ gpc = "thrown" => Len(PrimaryCalls) = maxAttempts /\ Len(FallbackCalls) = maxAttempts
        /\ gpc # "thrown" => ENABLED (GenFail \/ GenWait)

C1_Witness ==
    /\ gpc = "thrown"
    /\ EveryCallFailedRetriably
    /\ maxAttempts = 4
    /\ Len(Calls) = 8

\* C2: a permanent (non-retriable) failure of attempt k on a model is that model's last
\* call and no wait follows it: after the primary model the next event is the first
\* call on the fallback model, after the fallback model the run throws.
C2_PermanentFailureEndsModel ==
    \A i \in 1..Len(trace) :
        PermanentFailure(trace[i]) =>
            /\ \A j \in (i + 1)..Len(trace) :
                    /\ trace[j].model # trace[i].model
                    /\ j = i + 1 => IsCall(trace[j]) /\ trace[j].attempt = 0
                                    /\ trace[i].model = modelsToTry[1]
                                    /\ trace[j].model = modelsToTry[2]
            /\ i = Len(trace) =>
                    /\ gpc # "wait"
                    /\ trace[i].model = modelsToTry[1] =>
                            gpc = "call" /\ modelsToTry[modelIdx] = modelsToTry[2] /\ attempt = 0
                    /\ trace[i].model = modelsToTry[2] => gpc = "thrown"

C2_Witness ==
    /\ Len(trace) >= 2
    /\ PermanentFailure(trace[1])
    /\ trace[1].model = modelsToTry[1]
    /\ IsCall(trace[2])
    /\ trace[2].model = modelsToTry[2]
    /\ maxAttempts >= 2

\* The delay the schedule [400, 800, 1600, 3200] gives for attempt a (0-based).
ScheduledDelay(a) == <<400, 800, 1600, 3200>>[IF a < 3 THEN a + 1 ELSE 4]

WaitFollows(i) ==
    /\ i = Len(trace) => gpc = "wait"
    /\ i < Len(trace) =>
          /\ IsWait(trace[i + 1])
          /\ trace[i + 1].ms = ScheduledDelay(trace[i].attempt)

RetryFollows(i) ==
    /\ i + 1 = Len(trace) => gpc = "call" /\ modelsToTry[modelIdx] = trace[i].model
    /\ i + 1 < Len(trace) =>
          /\ IsCall(trace[i + 2])
          /\ trace[i + 2].model = trace[i].model
          /\ trace[i + 2].attempt = trace[i].attempt + 1

\* C3 as stated: after every retriable failure the scheduled wait follows, and every
\* wait is followed by another attempt with the same model.
C3_WaitThenRetrySameModel ==
    \A i \in 1..Len(trace) :
        RetriableFailure(trace[i]) => WaitFollows(i) /\ RetryFollows(i)

\* C3 amended: after every retriable failure of attempt a the wait delays[min(a, 3)]
\* follows (and waits happen nowhere else); the wait is followed by attempt a + 1 on
\* the same model when a + 1 < maxAttempts, and otherwise by the first call on the
\* fallback model (after the primary model) or by the throw (after the fallback model).
C3_WaitThenRetryOrMoveOn ==
    /\ \A i \in 1..Len(trace) :
          RetriableFailure(trace[i]) =>
              /\ WaitFollows(i)
              /\ trace[i].attempt + 1 < maxAttempts => RetryFollows(i)
              /\ (trace[i].attempt + 1 >= maxAttempts /\ trace[i].model = modelsToTry[1]) =>
                    /\ i + 1 = Len(trace) =>
                          gpc = "call" /\ modelsToTry[modelIdx] = modelsToTry[2] /\ attempt = 0
                    /\ i + 1 < Len(trace) =>
                          /\ IsCall(trace[i + 2])
                          /\ trace[i + 2].model = modelsToTry[2]
                          /\ trace[i + 2].attempt = 0
              /\ (trace[i].attempt + 1 >= maxAttempts /\ trace[i].model = modelsToTry[2]) =>
                    /\ i + 1 >= Len(trace)
                    /\ i + 1 = Len(trace) => gpc = "thrown"
    /\ \A i \in 1..Len(trace) :
          IsWait(trace[i]) => i > 1 /\ RetriableFailure(trace[i - 1])

C3_Witness ==
    \E i \in 1..Len(trace) :
        /\ IsWait(trace[i])
        /\ trace[i].attempt = 4
        /\ trace[i].ms = 3200
        /\ trace[i].model = modelsToTry[1]
        /\ i < Len(trace)
        /\ OnFallback(trace[i + 1])

\* C4: a successful call is the last event: the run has returned, with that call's
\* text, and no call (so none on the fallback model after a primary success) and no
\* wait follows it.
C4_SuccessReturnsAtOnce ==
    /\ \A i \in 1..Len(trace) :
          (IsCall(trace[i]) /\ trace[i].ok) =>
              /\ i = Len(trace)
              /\ gpc = "returned"
              /\ genResult = trace[i].text
    /\ gpc = "returned" => Len(trace) > 0 /\ IsCall(trace[Len(trace)]) /\ trace[Len(trace)].ok

C4_Witness ==
    /\ gpc = "returned"
    /\ genResult = "answer2"
    /\ Len(trace) = 3
    /\ trace[3].model = modelsToTry[1]
    /\ trace[3].attempt = 1

LastCall == Calls[Len(Calls)]

ModelFinished(cs) ==
    /\ Len(cs) > 0
    /\ \/ PermanentFailure(cs[Len(cs)])
       \/ RetriableFailure(cs[Len(cs)]) /\ cs[Len(cs)].attempt = maxAttempts - 1

\* C5: the run throws only when every call failed and both models' attempts are over
\* (exhausted, or aborted by a permanent error); what it throws is the error of the
\* last call made.
C5_ThrowsLastError ==
    gpc = "thrown" =>
        /\ \A i \in 1..Len(trace) : IsCall(trace[i]) => FailedCall(trace[i])
        /\ ModelFinished(PrimaryCalls)
        /\ ModelFinished(FallbackCalls)
        /\ lastErr = LastCall.err

C5_Witness ==
    /\ gpc = "thrown"
    /\ maxAttempts = 3
    /\ Len(PrimaryCalls) = 3
    /\ Len(FallbackCalls) = 2
    /\ PermanentFailure(LastCall)
    /\ lastErr = LastCall.err
    /\ lastErr # Calls[1].err

(***************************************************************************)
(* Properties of chunkText                                                 *)
(***************************************************************************)

\* ceil(a / b) for b > 0
CeilDiv(a, b) == -((-a) \div b)

\* C6: for a text of length L > 0 and 0 <= O < C, chunkText returns
\* min(maxChunks, max(1, ceil((L - O) / (C - O)))) chunks, so a text with L <= C gives
\* the one chunk [0, L).
C6_ChunkCount ==
    (cpc = "done" /\ cin.maxLen > 0 /\ cin.overlap < cin.chunkSize) =>
        /\ Len(cout) = Min(cin.maxChunks,
                           Max(1, CeilDiv(cin.maxLen - cin.overlap,
                                          cin.chunkSize - cin.overlap)))
        /\ (cin.maxLen <= cin.chunkSize /\ cin.maxChunks >= 1) =>
                cout = <<[from |-> 0, to |-> cin.maxLen]>>

\* The end of the prefix the chunks reach.
CoveredEnd == IF cout = <<>> THEN 0 ELSE cout[Len(cout)].to

\* C7: for 0 <= O < C the spans start at 0, each next span starts at or before the end
\* of the one before it, and every position below the last span's end lies in a span;
\* when L <= maxChunks * (C - O) the last span ends at L.
C7_Coverage ==
    (cpc = "done" /\ cin.overlap < cin.chunkSize) =>
        /\ cout # <<>> => cout[1].from = 0
        /\ \A k \in 1..Len(cout) : cout[k].from < cout[k].to /\ cout[k].to <= cin.maxLen
        /\ \A k \in 1..(Len(cout) - 1) :
              cout[k + 1].from <= cout[k].to /\ cout[k].to <= cout[k + 1].to
        /\ \A pos \in 0..(CoveredEnd - 1) :
              \E k \in 1..Len(cout) : cout[k].from <= pos /\ pos < cout[k].to
        /\ cin.maxLen <= cin.maxChunks * (cin.chunkSize - cin.overlap) =>
              CoveredEnd = cin.maxLen

C7_Witness ==
    /\ cpc = "done"
    /\ cin = [maxLen |-> 9, chunkSize |-> 4, overlap |-> 1, maxChunks |-> 3]
    /\ Len(cout) = 3
    /\ cout[2] = [from |-> 3, to |-> 7]
    /\ cout[3].to = 9

(***************************************************************************)
(* Properties of the ingestion run                                         *)
(***************************************************************************)

Ids == DOMAIN store

\* C8: when the script is run again on the same documents and every embed and upsert
\* call of both runs succeeded (each embed answer holding one vector per text), the
\* collection holds exactly the point ids it held when the previous run ended.
C8_Idempotent ==
    (ipc # "idle" /\ run >= 2 /\ allOk) =>
        /\ Ids = snap
        /\ Cardinality(Ids) = Cardinality(snap)

C8_Witness ==
    /\ ipc = "done"
    /\ run = 2
    /\ allOk
    /\ feed = <<DocA, DocB>>
    /\ Cardinality(snap) = 160
    /\ Ids = snap

\* A step in which an embed or an upsert call of the current document throws.
CallFails == ipc \in {"embed", "upsert"} /\ lastStep'.ok = FALSE

\* C9: a failing embed or upsert call changes nothing in the collection (the batches
\* already stored and the earlier documents' points stay as they are) and moves the
\* loop to the next document; a document once left is not taken up again in the run;
\* the run never fails in the loop (only ensureCollection, before the loop, can end
\* it), the loop enters its body for the documents one by one, and when the run is
\* done it has entered it for every document.
C9_FailureSkipsDocument ==
    /\ [][CallFails => /\ store' = store
                       /\ ipc' = "doc"
                       /\ d' = d + 1
                       /\ run' = run]_vars
    /\ [][run' = run => d' >= d]_vars
    /\ [](ipc \in {"embed", "upsert"} => d \in started /\ d <= Len(docs) /\ bi < Len(chunks))
    /\ [](ipc = "doc" => d <= Len(docs) + 1 /\ started = 1..(d - 1))
    /\ [](ipc = "crashed" => lastStep.op = "create")
    /\ [](ipc = "done" => started = 1..Len(docs))

C9_Witness ==
    /\ ipc = "done"
    /\ run = 1
    /\ feed = <<DocA, DocB>>
    /\ faults = 1
    /\ pointId(UrlA, 31) \in Ids
    /\ pointId(UrlA, 32) \notin Ids
    /\ pointId(UrlB, 79) \in Ids
    /\ started = {1, 2}

\* C10: what embedBatch returns for a batch is one vector per text of the batch, the
\* k-th the embedding of the k-th text (a shorter answer makes the call fail), so a
\* document whose upsert went through has a point for every one of its chunks.
C10_OneVectorPerText ==
    /\ ipc = "upsert" =>
          /\ Len(vectors) = Len(BatchSlice(chunks, bi))
          /\ \A k \in 1..Len(vectors) : vectors[k] = Embedding(BatchSlice(chunks, bi)[k])
    /\ (ipc = "doc" /\ lastStep.op = "upsert" /\ lastStep.ok) =>
          \A g \in 0..(Len(chunks) - 1) : pointId(docs[lastStep.doc].url, g) \in Ids

(***************************************************************************)
(* Properties of ensureCollection and of the order of the run's calls      *)
(***************************************************************************)

InLoop == ipc \in {"doc", "embed", "upsert", "done"}

\* C11: ensureCollection never ends with an error, it leaves the collection existing,
\* and it sends a create request only when the collection does not exist.
C11_EnsureCollectionSafe ==
    /\ ipc = "create" => ~collExists
    /\ ~(ipc = "crashed" /\ lastStep.op = "create")
    /\ InLoop => collExists

\* C14: in a run ensureCollection is called once and is over before the first embed or
\* upsert call; the documents are taken one after another; batch 0 of a document is
\* embedded right after the document is entered, a batch is upserted right after it
\* was embedded, and the next batch is embedded right after the one before it was
\* upserted: one call at a time, batches in increasing order of their offset.
C14_OneCallAtATimeInOrder ==
    /\ ipc = "ensure" => ensureCalls = 0 /\ started = {}
    /\ ipc = "create" => ensureCalls = 1 /\ started = {}
    /\ InLoop => ensureCalls = 1 /\ collExists
    /\ ipc = "doc" => started = 1..(d - 1)
    /\ ipc \in {"embed", "upsert"} => started = 1..d /\ d <= Len(docs)
    /\ ipc = "embed" =>
          /\ bi % BATCH = 0
          /\ bi < Len(chunks)
          /\ bi = 0 => lastStep = [op |-> "start", doc |-> d, batch |-> 0, ok |-> TRUE]
          /\ bi > 0 => lastStep = [op |-> "upsert", doc |-> d, batch |-> bi - BATCH, ok |-> TRUE]
    /\ ipc = "upsert" => lastStep = [op |-> "embed", doc |-> d, batch |-> bi, ok |-> TRUE]

C14_Witness ==
    /\ ipc = "embed"
    /\ run = 2
    /\ d = 2
    /\ bi = 64
    /\ ensureCalls = 1
    /\ lastStep = [op |-> "upsert", doc |-> 2, batch |-> 32, ok |-> TRUE]

(***************************************************************************)
(* Further properties of chunkText                                         *)
(***************************************************************************)

\* C16: for 0 <= O < C, window k+1 starts at the end of window k minus the overlap,
\* and the starts strictly increase (no two windows start at the same position).
C16_StartsStrictlyIncrease ==
    (cpc = "done" /\ cin.overlap < cin.chunkSize) =>
        \A k \in 1..(Len(cout) - 1) :
            /\ cout[k + 1].from = cout[k].to - cin.overlap
            /\ cout[k + 1].from > cout[k].from

\* C17: chunkText returns for every input (also with overlap >= chunkSize, where the
\* cursor is clamped to 0, and with the empty text, which gives no chunk), never
\* with more than maxChunks chunks, and (chunkSize >= 1) never with an empty chunk.
C17_TerminatesWithinCap ==
    /\ cpc = "ready" => ENABLED ChunkCall
    /\ cpc = "done" =>
          /\ Len(cout) <= cin.maxChunks
          /\ cin.maxLen = 0 => cout = <<>>
          /\ \A k \in 1..Len(cout) : cout[k].from < cout[k].to

C17_Witness ==
    /\ cpc = "done"
    /\ cin = [maxLen |-> 5, chunkSize |-> 2, overlap |-> 3, maxChunks |-> 4]
    /\ cout = <<[from |-> 0, to |-> 2], [from |-> 0, to |-> 2],
                [from |-> 0, to |-> 2], [from |-> 0, to |-> 2]>>

(***************************************************************************)
(* The point ids                                                           *)
(***************************************************************************)

\* Urls the id function is compared on: some hold '#' and digits themselves.
IdUrls == {UrlA, UrlB, <<"a", "#", "1">>, <<"a", "1">>}

\* The string the claim names: url + '#' + g.
HashInput(url, g) == url \o <<"#">> \o Decimal(g)

\* For each url of the feeds, the hashes of url + '#' + g over the chunk positions g.
HashIds ==
    [u \in {UrlA, UrlB} |-> {md5(HashInput(u, g)) : g \in 0..(MaxChunks - 1)}]

\* The ids the claim gives the points of the batch being written: url + '#' + g hashed,
\* for g = i + j over the vectors of the batch.
BatchIds == {md5(HashInput(docs[d].url, bi + j - 1)) : j \in 1..Len(vectors)}

\* C18: a point's id is the hash of url + '#' + g with g the chunk's position in the
\* whole document. Every stored id is of this form for its payload's url; an upsert
\* writes point j of the batch at offset i under the id of (url, i + j) with the text
\* of chunk i + j and leaves every other id as it was; and distinct (url, g) give
\* distinct ids, also for urls that hold '#' and digits.
C18_IdFromUrlAndGlobalIndex ==
    /\ [](\A id \in Ids : id \in HashIds[store[id].payload.url])
    /\ []((ipc = "ensure" /\ run = 1) =>
             /\ \A u \in IdUrls : \A g \in 0..(MaxChunks - 1) :
                    pointId(u, g) = md5(HashInput(u, g))
             /\ Cardinality({pointId(u, g) : u \in IdUrls, g \in 0..(MaxChunks - 1)})
                   = Cardinality(IdUrls) * MaxChunks)
    /\ [][(ipc = "upsert" /\ lastStep' = Step("upsert", TRUE)) =>
             /\ DOMAIN store' = DOMAIN store \cup BatchIds
             /\ \A j \in 1..Len(vectors) :
                    /\ store'[md5(HashInput(docs[d].url, bi + j - 1))].payload.text
                          = chunks[bi + j]
                    /\ store'[md5(HashInput(docs[d].url, bi + j - 1))].vector = vectors[j]
             /\ \A id \in DOMAIN store \ BatchIds : store'[id] = store[id]]_vars

C18_Witness ==
    /\ ipc = "embed"
    /\ feed = <<DocA, DocA2>>
    /\ d = 2
    /\ bi = 64
    /\ allOk
    /\ store[pointId(UrlA, 0)].payload.title = "A2"
    /\ store[pointId(UrlA, 32)].payload.text = chunks[33]
    /\ store[pointId(UrlA, 64)].payload.title = "A"

(***************************************************************************)
(* Properties of the chat handler                                          *)
(***************************************************************************)

Sent(r) == Len(responses[r]) > 0
Response(r) == responses[r][1]

\* The search of request r has answered.
Searched(r) ==
    \/ rpc[r] \in {"generate", "aGet", "aSet"}
    \/ rpc[r] = "done" /\ failedAt[r] \in {"none", "generate", "aGet", "aSet"}
                       /\ ~Rejected(message[r])

\* The message carries text: a string that is not empty after trimming.
HasText(m) == m.kind = "string" /\ Trim(m.val) # <<>>

\* A single request runs alone on the session.
Alone == rpc[2] = "idle" /\ rpc[1] # "idle"

C13_FailuresAnswerFriendly ==
    \A r \in Requests :
        /\ Len(responses[r]) <= 1
        /\ Sent(r) <=> rpc[r] = "done"
        /\ Sent(r) =>
              /\ Response(r).status \in {200, 400}
              /\ Response(r).status = 400 <=> Rejected(message[r])
              /\ Response(r).status = 400 => ~HasText(message[r])
              /\ HasText(message[r]) => Response(r).status = 200
              /\ failedAt[r] # "none" =>
                    /\ Response(r).status = 200
                    /\ Response(r).reply = friendly
                    /\ Response(r).sources = <<>>

C13_Witness ==
    /\ Alone
    /\ rpc[1] = "done"
    /\ message[1] = Str(<<" ", "q", " ">>)
    /\ failedAt[1] = "generate"
    /\ indexed = <<HitA, HitB>>
    /\ responses[1] = <<[status |-> 200, reply |-> friendly, sources |-> <<>>]>>

C19_AppendsAreLossless ==
    (\A r \in Requests : rpc[r] \in {"idle", "done"}) => Len(redis) = pushes

\* C20: for a request that runs alone, a reply returned with status 200 is in the
\* history: the history ends with the user's message followed by an assistant entry
\* with the returned reply.
C20_EveryReplyIsInHistory ==
    (Alone /\ rpc[1] = "done" /\ Response(1).status = 200) =>
        /\ Len(redis) >= 2
        /\ redis[Len(redis)].role = "assistant"
        /\ redis[Len(redis)].content = Response(1).reply
        /\ redis[Len(redis) - 1].role = "user"
        /\ message[1].kind = "string"
        /\ redis[Len(redis) - 1].content = message[1].val

\* C20 as amended: for a request that runs alone and answers with status 200, if no
\* step threw the history is the user's message followed by an assistant entry with
\* the returned reply; if a step threw the reply is the friendly one and the history
\* holds no assistant entry (only the user's message, if its write completed).
C20_ReplyInHistoryUnlessFailed ==
    (Alone /\ rpc[1] = "done" /\ Response(1).status = 200) =>
        IF failedAt[1] = "none"
        THEN /\ Len(redis) = 2
             /\ redis[2].role = "assistant"
             /\ redis[2].content = Response(1).reply
             /\ redis[1].role = "user"
             /\ redis[1].content = message[1].val
        ELSE /\ Response(1).reply = friendly
             /\ Len(redis) <= 1
             /\ \A k \in 1..Len(redis) : redis[k].role = "user"
             /\ Len(redis) = 1 <=>
                   failedAt[1] \in {"embed", "search", "generate", "aGet", "aSet"}

C20_Witness ==
    /\ Alone
    /\ rpc[1] = "done"
    /\ failedAt[1] = "none"
    /\ message[1] = Str(<<"h", "i">>)
    /\ indexed = <<HitA>>
    /\ Len(redis) = 2
    /\ redis[2].role = "assistant"
    /\ redis[2].content = "answer [S1]"
    /\ responses[1][1].reply = "answer [S1]"

====
